---- MODULE Spec2Model ----
(***************************************************************************)
(* Model of test21.py: a Telegram weather bot with a Flask health thread.  *)
(*                                                                         *)
(* Strings are sequences of one-character tokens (city names, message      *)
(* texts) or of longer literal tokens (the fixed parts of the templates).  *)
(* The weather provider's answer and the outcome of sending a reply are    *)
(* inputs of the handlers, drawn from small sets.                          *)
(***************************************************************************)
EXTENDS Integers, Sequences, FiniteSets, TLC

VARIABLES
    pc,          \* where the process is: "boot", "main", "polling", "crashed"
    env,         \* the environment after load_dotenv(): API_KEY, TG_KEY
    flask,       \* TRUE once the Flask thread has been started
    user_data,   \* context.user_data of each user: a dict
    last         \* the most recent handler invocation and what it did

vars == <<pc, env, flask, user_data, last>>

\* ------------------------------------------------------------------ bounds
MaxLen == 2        \* longest free-text message, in characters
MaxArgs == 2       \* most arguments after /weather

Users == {"u1", "u2"}

\* ----------------------------------------------------------------- strings
Whitespace == {" "}
Letters == {"a"}
Chars == Letters \cup Whitespace

RECURSIVE SeqsUpTo(_, _)
SeqsUpTo(S, n) ==
    IF n = 0 THEN {<<>>}
    ELSE LET shorter == SeqsUpTo(S, n - 1)
         IN  shorter \cup {Append(s, c) : s \in {t \in shorter : Len(t) = n - 1}, c \in S}

\* str.lstrip() / str.rstrip() / str.strip() with no argument
RECURSIVE lstrip(_)
lstrip(s) == IF s # <<>> /\ Head(s) \in Whitespace THEN lstrip(Tail(s)) ELSE s

RECURSIVE rstrip(_)
rstrip(s) ==
    IF s # <<>> /\ s[Len(s)] \in Whitespace THEN rstrip(SubSeq(s, 1, Len(s) - 1)) ELSE s

strip(s) == rstrip(lstrip(s))

\* " ".join(args)
RECURSIVE join(_)
join(args) ==
    IF args = <<>> THEN <<>>
    ELSE IF Len(args) = 1 THEN args[1]
    ELSE args[1] \o <<" ">> \o join(Tail(args))

\* str(n) for a natural number, and the zero-padded two-digit form of %H, %M
Digit(d) == CASE d = 0 -> "0" [] d = 1 -> "1" [] d = 2 -> "2" [] d = 3 -> "3"
              [] d = 4 -> "4" [] d = 5 -> "5" [] d = 6 -> "6" [] d = 7 -> "7"
              [] d = 8 -> "8" [] d = 9 -> "9"

\* str(n) for an integer
RECURSIVE NatStr(_)
NatStr(n) == IF n < 10 THEN <<Digit(n)>> ELSE NatStr(n \div 10) \o <<Digit(n % 10)>>

IntStr(n) == IF n < 0 THEN <<"-">> \o NatStr(0 - n) ELSE NatStr(n)

TwoDigits(n) == <<Digit(n \div 10), Digit(n % 10)>>

\* Mutant: hour and minute printed without zero padding
strftime_HM_Unpadded(ts, tz) ==
    LET secs == (ts + tz) % 86400
    IN  NatStr(secs \div 3600) \o <<":">> \o NatStr((secs % 3600) \div 60)

\* datetime.fromtimestamp(ts).strftime("%H:%M") in a zone tz seconds
\* east of UTC
strftime_HM(ts, tz) ==
    LET secs == (ts + tz) % 86400
    IN  TwoDigits(secs \div 3600) \o <<":">> \o TwoDigits((secs % 3600) \div 60)

\* ------------------------------------------------- the provider's response
\* The JSON document is a dict: a function from its keys. A key that is
\* absent is absent from the domain.
Without(d, k) == [x \in DOMAIN d \ {k} |-> d[x]]

EmptyDict == [x \in {} |-> 0]

\* sys.sunset samples: 22:13:20 UTC and 05:07:00 UTC
SunsetSamples == {1700000000, 1699938420}

FullData(sunset) ==
    [weather |-> <<[description |-> <<"clear sky">>]>>,
     main    |-> [temp |-> -5, humidity |-> 80, grnd_level |-> 1013],
     wind    |-> [speed |-> 3],
     sys     |-> [sunset |-> sunset]]

CompleteDatas ==
    LET full == {FullData(ts) : ts \in SunsetSamples}
    IN  full \cup {[d EXCEPT !.main = Without(d.main, "grnd_level")] : d \in full}

IncompleteDatas ==
    LET d == FullData(1700000000)
    IN  { Without(d, "weather"),
          [d EXCEPT !.weather = <<>>],
          [d EXCEPT !.weather = <<EmptyDict>>],
          Without(d, "main"),
          [d EXCEPT !.main = Without(d.main, "temp")],
          [d EXCEPT !.main = Without(d.main, "humidity")],
          Without(d, "wind"),
          [d EXCEPT !.wind = EmptyDict],
          Without(d, "sys"),
          [d EXCEPT !.sys = EmptyDict] }

\* A response object: its status code, whether its body parses as JSON, and
\* the parsed document.
OkStatuses == {200}
ErrorStatuses == {400, 404, 500}

Responses ==
    {[status_code |-> st, json_ok |-> TRUE, data |-> d] :
        st \in OkStatuses, d \in CompleteDatas \cup IncompleteDatas}
    \cup {[status_code |-> st, json_ok |-> FALSE, data |-> EmptyDict] :
        st \in OkStatuses \cup ErrorStatuses}

NoResponse == [status_code |-> 0, json_ok |-> FALSE, data |-> EmptyDict]

\* The host's local time zone, seconds east of UTC
UtcOffsets == {0, 10800}

\* What the world does during one call of get_weather: requests.get returns
\* a response, or it raises before any response exists (get_raises names the
\* exception's class); utcoffset is the local zone fromtimestamp converts to.
RequestFailures == {"ConnectionError", "Timeout"}

Outcomes ==
    {[get_raises |-> "none", r |-> resp, utcoffset |-> tz] :
        resp \in {x \in Responses : x.data \in CompleteDatas}, tz \in UtcOffsets}
    \cup {[get_raises |-> "none", r |-> resp, utcoffset |-> 0] :
        resp \in {x \in Responses : x.data \notin CompleteDatas}}
    \cup {[get_raises |-> e, r |-> NoResponse, utcoffset |-> 0] : e \in RequestFailures}

NoOutcome == [get_raises |-> "none", r |-> NoResponse, utcoffset |-> 0]

\* One outcome for each way get_weather can end
SampleOutcomes ==
    {o \in Outcomes :
        \/ o.get_raises = "ConnectionError"
        \/ o.get_raises = "none" /\ o.r.status_code \in {404, 500}
        \/ o.get_raises = "none" /\ o.r.status_code = 200 /\ ~o.r.json_ok
        \/ o.get_raises = "none" /\ o.utcoffset = 10800
              /\ o.r.data = FullData(1699938420)
        \/ o.get_raises = "none" /\ o.r.json_ok
              /\ o.r.data = Without(FullData(1700000000), "sys")}

\* Response.raise_for_status(): TRUE when it raises HTTPError
raise_for_status(r) == 400 <= r.status_code /\ r.status_code < 600

\* ------------------------------------------------------------ get_weather
NoExc == [cls |-> "none", text |-> <<>>]

KeyError(k) == [cls |-> "KeyError", text |-> <<"'", k, "'">>]

\* The try block, lines 70-81: the first exception raised in it, if any.
TryBlockException(city, outcome) ==
    LET r == outcome.r
        data == r.data
    IN  IF outcome.get_raises # "none"
            THEN [cls |-> outcome.get_raises, text |-> <<outcome.get_raises>>]
        ELSE IF raise_for_status(r)
            THEN [cls |-> "HTTPError", text |-> IntStr(r.status_code) \o <<" Error for url">>]
        ELSE IF ~r.json_ok
            THEN [cls |-> "JSONDecodeError", text |-> <<"Expecting value">>]
        ELSE IF "weather" \notin DOMAIN data THEN KeyError("weather")
        ELSE IF data.weather = <<>>
            THEN [cls |-> "IndexError", text |-> <<"list index out of range">>]
        ELSE IF "description" \notin DOMAIN data.weather[1] THEN KeyError("description")
        ELSE IF "main" \notin DOMAIN data THEN KeyError("main")
        ELSE IF "temp" \notin DOMAIN data.main THEN KeyError("temp")
        ELSE IF "humidity" \notin DOMAIN data.main THEN KeyError("humidity")
        ELSE IF "wind" \notin DOMAIN data THEN KeyError("wind")
        ELSE IF "speed" \notin DOMAIN data.wind THEN KeyError("speed")
        ELSE IF "sys" \notin DOMAIN data THEN KeyError("sys")
        ELSE IF "sunset" \notin DOMAIN data.sys THEN KeyError("sunset")
        ELSE NoExc

\* data["main"].get("grnd_level", <placeholder>), formatted
PressureText(main) ==
    IF "grnd_level" \in DOMAIN main THEN IntStr(main.grnd_level) ELSE <<"n/a">>

\* The f-string of lines 82-90
weather_info(city, data, tz) ==
    <<"[sun] <b>Weather in ">> \o city \o <<"</b>\n">>
    \o <<"Description: ">> \o data.weather[1].description \o <<"\n">>
    \o <<"Temperature: ">> \o IntStr(data.main.temp) \o <<" C\n">>
    \o <<"Humidity: ">> \o IntStr(data.main.humidity) \o <<" %\n">>
    \o <<"Pressure: ">> \o PressureText(data.main) \o <<" hPa\n">>
    \o <<"Wind speed: ">> \o IntStr(data.wind.speed) \o <<" m/s\n">>
    \o <<"Sunset: ">> \o strftime_HM(data.sys.sunset, tz)

NotFoundMessage(city) == <<"[x] City '">> \o city \o <<"' not found.">>

ApiErrorMessage(text) == <<"[x] API error: ">> \o text

GenericErrorMessage(text) == <<"[x] An error occurred: ">> \o text

\* Mutant: no special case for 404
HandleHTTPError_No404(city, outcome, e) ==
    IF outcome.get_raises # "none"
        THEN [ret |-> <<>>, raised |-> "UnboundLocalError", errors |-> 0]
    ELSE [ret |-> ApiErrorMessage(e.text), raised |-> "none", errors |-> 1]

\* Mutant: the error status is reported but not logged
HandleHTTPError_NoLog(city, outcome, e) ==
    IF outcome.get_raises # "none"
        THEN [ret |-> <<>>, raised |-> "UnboundLocalError", errors |-> 0]
    ELSE IF outcome.r.status_code = 404
        THEN [ret |-> NotFoundMessage(city), raised |-> "none", errors |-> 0]
    ELSE [ret |-> ApiErrorMessage(e.text), raised |-> "none", errors |-> 0]

\* except requests.exceptions.HTTPError, lines 92-97. The handler reads r;
\* when requests.get raised, r was never bound and the read raises.
HandleHTTPError(city, outcome, e) ==
    IF outcome.get_raises # "none"
        THEN [ret |-> <<>>, raised |-> "UnboundLocalError", errors |-> 0]
    ELSE IF outcome.r.status_code = 404
        THEN [ret |-> NotFoundMessage(city), raised |-> "none", errors |-> 0]
    ELSE [ret |-> ApiErrorMessage(e.text), raised |-> "none", errors |-> 1]

\* Mutant: no catch-all clause, the exception leaves get_weather
HandleException_Propagates(city, e) ==
    [ret |-> <<>>, raised |-> e.cls, errors |-> 0]

\* except Exception, lines 98-100
HandleException(city, e) ==
    [ret |-> GenericErrorMessage(e.text), raised |-> "none", errors |-> 1]

\* get_weather(city), lines 61-100: the string returned (ret), the class of
\* an exception that leaves the function (raised), and the number of
\* logger.error calls made (errors).
get_weather(city, outcome) ==
    LET e == TryBlockException(city, outcome)
    IN  IF e.cls = "none"
            THEN [ret |-> weather_info(city, outcome.r.data, outcome.utcoffset),
                  raised |-> "none", errors |-> 0]
        ELSE IF e.cls = "HTTPError" THEN HandleHTTPError(city, outcome, e)
        ELSE HandleException(city, e)

\* --------------------------------------------------------------- bootstrap
\* os.getenv(name): None when the variable is absent, else its value
EnvValues ==
    {[present |-> FALSE, value |-> <<>>],
     [present |-> TRUE, value |-> <<>>],
     [present |-> TRUE, value |-> <<"k">>]}

\* Python's truth value of os.getenv's result
Truthy(v) == v.present /\ v.value # <<>>

DEFAULT_CITIES == << <<"Moskva">>, <<"Sankt-Peterburg">>, <<"Sochi">>, <<"Igora">> >>

NoInvocation ==
    [handler |-> "none", user |-> "none", text |-> <<>>, args |-> <<>>,
     lookups |-> <<>>, outcome |-> NoOutcome, ret |-> <<>>, errors |-> 0,
     infos |-> 0, replies |-> <<>>, status |-> "none"]

Init ==
    /\ pc = "boot"
    /\ env \in [{"API_KEY", "TG_KEY"} -> EnvValues]
    /\ flask = FALSE
    /\ user_data = [u \in Users |-> EmptyDict]
    /\ last = NoInvocation

\* Module level, lines 19-58: the two checks raise ValueError before main()
\* is reached.
\* Mutant: only the first secret is checked
SecretsPresent_OnlyApiKey == Truthy(env["API_KEY"])

SecretsPresent == Truthy(env["API_KEY"]) /\ Truthy(env["TG_KEY"])

ModuleLevel ==
    /\ pc = "boot"
    /\ pc' = IF SecretsPresent THEN "main" ELSE "crashed"
    /\ UNCHANGED <<env, flask, user_data, last>>

\* main(), lines 159-175: start the Flask thread, register the handlers,
\* run the polling loop.
main ==
    /\ pc = "main"
    /\ flask' = TRUE
    /\ pc' = "polling"
    /\ UNCHANGED <<env, user_data, last>>

\* ---------------------------------------------------------------- handlers
\* One call of update.message.reply_text
Reply(text, keyboard) == [text |-> text, parse_mode |-> "HTML", keyboard |-> keyboard]

\* d[k] = v on a dict
SetKey(d, k, v) == [x \in DOMAIN d \cup {k} |-> IF x = k THEN v ELSE d[x]]

\* What an invocation leaves behind. reply_text is a call to the Bot API;
\* sent says whether it returned (TRUE) or raised (FALSE).
Invocation(handler, u, text, args, lookups, outcome, w, infos, replies, status) ==
    [handler |-> handler, user |-> u, text |-> text, args |-> args,
     lookups |-> lookups, outcome |-> outcome, ret |-> w.ret, errors |-> w.errors,
     infos |-> infos, replies |-> replies, status |-> status]

NoLookup == [ret |-> <<>>, raised |-> "none", errors |-> 0]

\* start, lines 103-113
start(u, sent) ==
    /\ pc = "polling"
    /\ LET keyboard == [i \in 1..Len(DEFAULT_CITIES) |-> <<DEFAULT_CITIES[i]>>]
           reply == Reply(<<"Hello! Choose a city from the list or type your own:">>, keyboard)
       IN  last' = Invocation("start", u, <<>>, <<>>, <<>>, NoOutcome, NoLookup, 0,
                              <<reply>>, IF sent THEN "returned" ELSE "raised")
    /\ UNCHANGED <<pc, env, flask, user_data>>

\* help_command, lines 116-128
help_command(u, sent) ==
    /\ pc = "polling"
    /\ last' = Invocation("help", u, <<>>, <<>>, <<>>, NoOutcome, NoLookup, 0,
                          <<Reply(<<"help_text">>, <<>>)>>,
                          IF sent THEN "returned" ELSE "raised")
    /\ UNCHANGED <<pc, env, flask, user_data>>

\* Mutant: the arguments are not checked, the lookup is always called
weather_NoArgCheck(u, args, outcome, sent) ==
    /\ pc = "polling"
    /\ LET city == join(args)
           w == get_weather(city, outcome)
       IN  last' = Invocation("weather", u, <<>>, args, <<city>>, outcome, w, 0,
                              <<Reply(w.ret, <<>>)>>,
                              IF sent THEN "returned" ELSE "raised")
    /\ UNCHANGED <<pc, env, flask, user_data>>

\* Mutant: /weather also records the city in the session
weather_RecordsCity(u, args, outcome, sent) ==
    /\ pc = "polling"
    /\ IF args # <<>>
         THEN LET city == join(args)
                  w == get_weather(city, outcome)
              IN  /\ last' = Invocation("weather", u, <<>>, args, <<city>>, outcome, w, 0,
                                        <<Reply(w.ret, <<>>)>>,
                                        IF sent THEN "returned" ELSE "raised")
                  /\ user_data' = IF sent
                                    THEN [user_data EXCEPT ![u] = SetKey(@, "last_city", city)]
                                    ELSE user_data
         ELSE /\ last' = Invocation("weather", u, <<>>, args, <<>>, NoOutcome, NoLookup, 0,
                                    <<Reply(<<"[x] Specify a city after the /weather command">>, <<>>)>>,
                                    IF sent THEN "returned" ELSE "raised")
              /\ UNCHANGED user_data
    /\ UNCHANGED <<pc, env, flask>>

\* weather, lines 131-140
weather(u, args, outcome, sent) ==
    /\ pc = "polling"
    /\ IF args # <<>>
         THEN LET city == join(args)
                  w == get_weather(city, outcome)
              IN  last' =
                    IF w.raised # "none"
                      THEN Invocation("weather", u, <<>>, args, <<city>>, outcome, w, 0,
                                      <<>>, "raised")
                      ELSE Invocation("weather", u, <<>>, args, <<city>>, outcome, w, 0,
                                      <<Reply(w.ret, <<>>)>>,
                                      IF sent THEN "returned" ELSE "raised")
         ELSE last' = Invocation("weather", u, <<>>, args, <<>>, NoOutcome, NoLookup, 0,
                                 <<Reply(<<"[x] Specify a city after the /weather command">>, <<>>)>>,
                                 IF sent THEN "returned" ELSE "raised")
    /\ UNCHANGED <<pc, env, flask, user_data>>

\* Mutant: the session records the text as typed, not the trimmed city
handle_message_StoresRawText(u, text, outcome, sent) ==
    /\ pc = "polling"
    /\ LET city == strip(text)
           w == get_weather(city, outcome)
       IN  IF ~sent
             THEN /\ last' = Invocation("message", u, text, <<>>, <<city>>, outcome, w, 0,
                                        <<Reply(w.ret, <<>>)>>, "raised")
                  /\ UNCHANGED user_data
           ELSE   /\ last' = Invocation("message", u, text, <<>>, <<city>>, outcome, w, 1,
                                        <<Reply(w.ret, <<>>)>>, "returned")
                  /\ user_data' = [user_data EXCEPT ![u] = SetKey(@, "last_city", text)]
    /\ UNCHANGED <<pc, env, flask>>

\* handle_message, lines 143-149
handle_message(u, text, outcome, sent) ==
    /\ pc = "polling"
    /\ LET city == strip(text)
           w == get_weather(city, outcome)
       IN  IF w.raised # "none"
             THEN /\ last' = Invocation("message", u, text, <<>>, <<city>>, outcome, w, 0,
                                        <<>>, "raised")
                  /\ UNCHANGED user_data
           ELSE IF ~sent
             THEN /\ last' = Invocation("message", u, text, <<>>, <<city>>, outcome, w, 0,
                                        <<Reply(w.ret, <<>>)>>, "raised")
                  /\ UNCHANGED user_data
           ELSE   /\ last' = Invocation("message", u, text, <<>>, <<city>>, outcome, w, 1,
                                        <<Reply(w.ret, <<>>)>>, "returned")
                  /\ user_data' = [user_data EXCEPT ![u] = SetKey(@, "last_city", city)]
    /\ UNCHANGED <<pc, env, flask>>

\* --------------------------------------------------------------- the updates
\* CommandHandler passes context.args = the words after the command: each is
\* non-empty and holds no whitespace.
Words == {<<c>> : c \in Letters}
ArgLists == SeqsUpTo(Words, MaxArgs)

\* filters.TEXT & ~filters.COMMAND: a message with a non-empty text that is
\* not a command.
Texts == SeqsUpTo(Chars, MaxLen) \ {<<>>}

OnStart == \E u \in Users, sent \in BOOLEAN : start(u, sent)

OnHelp == \E u \in Users, sent \in BOOLEAN : help_command(u, sent)

OnWeather ==
    \E u \in Users, args \in ArgLists, outcome \in SampleOutcomes, sent \in BOOLEAN :
        weather(u, args, outcome, sent)

OnMessage ==
    \E u \in Users, text \in Texts, outcome \in SampleOutcomes, sent \in BOOLEAN :
        handle_message(u, text, outcome, sent)

Next == ModuleLevel \/ main \/ OnStart \/ OnHelp \/ OnWeather \/ OnMessage

Spec == Init /\ [][Next]_vars

\* ------------------------------------------ get_weather on its own inputs
Cities == SeqsUpTo(Chars, MaxLen)

InitLookup ==
    /\ pc = "lookup"
    /\ env = [k \in {"API_KEY", "TG_KEY"} |-> [present |-> TRUE, value |-> <<"k">>]]
    /\ flask = FALSE
    /\ user_data = [u \in Users |-> EmptyDict]
    /\ last = NoInvocation

\* One call get_weather(city) with the world answering by outcome
CallGetWeather(city, outcome) ==
    /\ pc = "lookup"
    /\ LET w == get_weather(city, outcome)
       IN  last' = Invocation("get_weather", "none", <<>>, <<>>, <<city>>, outcome, w, 0,
                              <<>>, IF w.raised # "none" THEN "raised" ELSE "returned")
    /\ UNCHANGED <<pc, env, flask, user_data>>

NextLookup == \E city \in Cities, outcome \in Outcomes : CallGetWeather(city, outcome)

SpecLookup == InitLookup /\ [][NextLookup]_vars

\* ------------------------------------------------------------------ claims
Contains(s, sub) ==
    \E i \in 0..(Len(s) - Len(sub)) : SubSeq(s, i + 1, i + Len(sub)) = sub

LookupDone == last.handler = "get_weather"

\* C1: get_weather never lets an exception propagate: whatever the city and
\* whatever the request does (complete body, malformed or incomplete body,
\* 404, another error status, a failure before any response exists), the
\* call returns a display string.
C1_AlwaysReturnsString ==
    LookupDone => last.status = "returned" /\ Len(last.ret) >= 2

C1_Witness ==
    /\ LookupDone
    /\ last.outcome.get_raises = "ConnectionError"
    /\ last.status = "returned"

\* C2: a 404 from the provider yields exactly the "city not found" message
\* with the city's name, never one of the two generic error messages, and
\* no error-level log entry.
C2_NotFoundMessage ==
    (LookupDone /\ last.outcome.get_raises = "none" /\ last.outcome.r.status_code = 404)
        => /\ last.ret = <<"[x] City '">> \o last.lookups[1] \o <<"' not found.">>
           /\ Head(last.ret) \notin {"[x] API error: ", "[x] An error occurred: "}
           /\ last.errors = 0

C2_Witness ==
    /\ LookupDone
    /\ last.outcome.r.status_code = 404
    /\ last.lookups = << <<"a", "a">> >>
    /\ last.ret = <<"[x] City '", "a", "a", "' not found.">>

\* C3: an HTTP error status other than 404 yields the generic API-error
\* message and exactly one error-level log entry.
C3_ApiErrorLoggedOnce ==
    (LookupDone /\ last.outcome.get_raises = "none"
        /\ last.outcome.r.status_code >= 400 /\ last.outcome.r.status_code # 404)
        => /\ Head(last.ret) = "[x] API error: "
           /\ last.errors = 1

C3_Witness ==
    /\ LookupDone
    /\ last.outcome.r.status_code = 500
    /\ Head(last.ret) = "[x] API error: "
    /\ last.errors = 1

\* C7: a non-error response carrying every required field yields the success
\* template with the city verbatim, the description, temperature, humidity,
\* wind speed and the sunset as two-digit hour:minute; the pressure line
\* carries grnd_level when present and the placeholder when absent, and the
\* result is never an error string.
ExpectedSunset(ts, tz) ==
    CASE ts = 1700000000 /\ tz = 0     -> <<"2", "2", ":", "1", "3">>
      [] ts = 1700000000 /\ tz = 10800 -> <<"0", "1", ":", "1", "3">>
      [] ts = 1699938420 /\ tz = 0     -> <<"0", "5", ":", "0", "7">>
      [] ts = 1699938420 /\ tz = 10800 -> <<"0", "8", ":", "0", "7">>

C7_SuccessTemplate ==
    (LookupDone /\ last.outcome.get_raises = "none"
        /\ last.outcome.r.status_code = 200 /\ last.outcome.r.json_ok
        /\ last.outcome.r.data \in CompleteDatas)
        => LET d == last.outcome.r.data
               ret == last.ret
           IN  /\ last.status = "returned"
               /\ last.errors = 0
               /\ Head(ret) = "[sun] <b>Weather in "
               /\ Contains(ret, <<"[sun] <b>Weather in ">> \o last.lookups[1] \o <<"</b>\n">>)
               /\ Contains(ret, <<"Description: ", "clear sky", "\n">>)
               /\ Contains(ret, <<"Temperature: ", "-", "5", " C\n">>)
               /\ Contains(ret, <<"Humidity: ", "8", "0", " %\n">>)
               /\ Contains(ret, <<"Wind speed: ", "3", " m/s\n">>)
               /\ SubSeq(ret, Len(ret) - 5, Len(ret))
                    = <<"Sunset: ">> \o ExpectedSunset(d.sys.sunset, last.outcome.utcoffset)
               /\ IF "grnd_level" \in DOMAIN d.main
                    THEN Contains(ret, <<"Pressure: ", "1", "0", "1", "3", " hPa\n">>)
                    ELSE Contains(ret, <<"Pressure: ", "n/a", " hPa\n">>)

C7_Witness ==
    /\ LookupDone
    /\ last.outcome.r.status_code = 200
    /\ last.outcome.r.data \in CompleteDatas
    /\ "grnd_level" \notin DOMAIN last.outcome.r.data.main
    /\ last.outcome.r.data.sys.sunset = 1699938420
    /\ last.outcome.utcoffset = 0
    /\ last.lookups = << <<"a", " ">> >>
    /\ Contains(last.ret, <<"Pressure: ", "n/a", " hPa\n">>)
    /\ Contains(last.ret, <<"Sunset: ", "0", "5", ":", "0", "7">>)

\* ------------------------------------------------------ claims on handlers
\* city is the words of args with exactly one space between neighbours
RECURSIVE StartOf(_, _)
StartOf(args, i) == IF i = 1 THEN 1 ELSE StartOf(args, i - 1) + Len(args[i - 1]) + 1

JoinedBySingleSpaces(city, args) ==
    /\ Len(city) = StartOf(args, Len(args)) + Len(args[Len(args)]) - 1
    /\ \A i \in 1..Len(args) :
         SubSeq(city, StartOf(args, i), StartOf(args, i) + Len(args[i]) - 1) = args[i]
    /\ \A i \in 1..(Len(args) - 1) : city[StartOf(args, i) + Len(args[i])] = " "

\* city is text without its leading and trailing whitespace
IsTrimOf(city, text) ==
    /\ city = <<>> \/ (city[1] \notin Whitespace /\ city[Len(city)] \notin Whitespace)
    /\ \E i \in 0..Len(text) :
         /\ i + Len(city) <= Len(text)
         /\ SubSeq(text, i + 1, i + Len(city)) = city
         /\ \A j \in (1..i) \cup ((i + Len(city) + 1)..Len(text)) : text[j] \in Whitespace

\* C4: /weather without arguments sends the fixed "specify a city" reply and
\* makes no lookup; with arguments it makes exactly one lookup, for the
\* arguments joined by single spaces, and replies with what it returned.
C4_WeatherCommand ==
    last.handler = "weather"
        => IF last.args = <<>>
             THEN /\ last.lookups = <<>>
                  /\ Len(last.replies) = 1
                  /\ last.replies[1].text = <<"[x] Specify a city after the /weather command">>
             ELSE /\ Len(last.lookups) = 1
                  /\ JoinedBySingleSpaces(last.lookups[1], last.args)
                  /\ Len(last.replies) = 1
                  /\ last.replies[1].text = last.ret
                  /\ Len(last.ret) >= 2

C4_Witness ==
    /\ last.handler = "weather"
    /\ last.args = <<>>
    /\ last.status = "returned"
    /\ last.lookups = <<>>

\* C5: the free-text handler makes exactly one lookup, for the trimmed text,
\* replies with exactly the string the lookup returned, and when it finishes
\* the sender's last-queried-city is the trimmed text, whatever the lookup's
\* outcome.
C5_FreeText ==
    last.handler = "message"
        => /\ Len(last.lookups) = 1
           /\ IsTrimOf(last.lookups[1], last.text)
           /\ Len(last.replies) = 1
           /\ last.replies[1].text = last.ret
           /\ Len(last.ret) >= 2
           /\ last.status = "returned"
                => /\ "last_city" \in DOMAIN user_data[last.user]
                   /\ IsTrimOf(user_data[last.user]["last_city"], last.text)

C5_Witness ==
    /\ last.handler = "message"
    /\ last.status = "returned"
    /\ last.text = <<" ", "a">>
    /\ last.outcome.r.status_code = 404
    /\ user_data[last.user] = [last_city |-> <<"a">>]

\* C6: with either secret absent (an empty value counts as absent) startup
\* raises before anything else happens: the Flask thread is never started,
\* polling never starts, no handler ever runs.
Absent(v) == ~v.present \/ v.value = <<>>

C6_FailFast ==
    (Absent(env["API_KEY"]) \/ Absent(env["TG_KEY"]))
        => /\ pc \in {"boot", "crashed"}
           /\ flask = FALSE
           /\ last = NoInvocation
           /\ user_data = [u \in Users |-> EmptyDict]

C6_Witness ==
    /\ pc = "crashed"
    /\ env["API_KEY"] = [present |-> TRUE, value |-> <<"k">>]
    /\ env["TG_KEY"] = [present |-> TRUE, value |-> <<>>]
    /\ flask = FALSE

\* C8: every handler invocation completes without raising, for every update
\* and every lookup outcome.
C8_NoHandlerRaises == last.status # "raised"

\* C9: the lookup is only ever called with a non-empty city, on both call
\* paths, a whitespace-only message included.
C9_CityNonEmpty == \A i \in 1..Len(last.lookups) : Len(last.lookups[i]) >= 1

\* C10: last-queried-city is written only by the free-text handler and only
\* in the sender's session: a step changes a user's entry only if it is a
\* completed free-text message of that user, and then the entry becomes that
\* message's trimmed text; /start, /help and /weather leave every entry
\* unchanged.
C10_OnlyFreeTextWrites ==
    [][ /\ \A u \in Users :
             user_data'[u] # user_data[u]
                => /\ last'.handler = "message"
                   /\ last'.user = u
                   /\ last'.status = "returned"
                   /\ DOMAIN user_data'[u] = {"last_city"}
                   /\ IsTrimOf(user_data'[u]["last_city"], last'.text)
        /\ last'.handler \in {"start", "help", "weather"} => user_data' = user_data
      ]_vars

C10_Witness ==
    /\ last.handler = "weather"
    /\ last.status = "returned"
    /\ last.lookups = << <<"a", " ", "a">> >>
    /\ user_data["u1"] = [last_city |-> <<"a">>]
    /\ user_data["u2"] = EmptyDict

====
